---------------------------- MODULE Spec2Model ----------------------------
(***************************************************************************)
(* A model of night_detect.py: the scene segmenter (create_scene_segments),*)
(* the credit filter (filter_credits_from_scenes with its nested           *)
(* merge_regions), the frame parsers, parse_text_analysis and main.        *)
(*                                                                         *)
(* A number of the model is a whole number of ticks of some unit and       *)
(* stands for the float the program holds for that value; what a float     *)
(* operation of the program does to such numbers is described in the       *)
(* section on float arithmetic below.                                      *)
(* Python lists are sequences; Python's 0-based index i is kept, element i *)
(* of a list being the sequence's element i+1.                             *)
(***************************************************************************)
EXTENDS Integers, Sequences, FiniteSets

VARIABLES
    pc,                \* position of the running function
    i,                 \* cursor of the running loop (list index, 0-based)
    \* ---- create_scene_segments (and the caller's lists)
    timestamps,        \* the timestamp list: an extractor's result, and the list
                       \* object passed to create_scene_segments (sorted in
                       \* place, line 533)
    min_duration,      \* second argument of create_scene_segments
    scenes,            \* the scene list: create_scene_segments' result list, and
                       \* the first argument of filter_credits_from_scenes
    current_start,     \* local of create_scene_segments
    current_end,       \* local of create_scene_segments
    arg_timestamps,    \* the value of the argument at the call (history)
    round,             \* 1: the first call, 2: the call on the flattened result
    first_arg,         \* the argument of the first call (history)
    first_scenes,      \* the result of the first call (history)
    \* ---- filter_credits_from_scenes
    text_regions,      \* second argument
    video_duration,    \* third argument
    opening_credits,   \* local
    closing_credits,   \* local
    all_credits,       \* local
    filtered_scenes,   \* local
    returned,          \* the value returned (NotReturned until the return)
    \* ---- extract_audio_correlated_timestamps,
    \*      extract_establishing_shot_timestamps
    lines,             \* the lines of the analysis file
    frame_data,        \* local list of frame records
    current_timestamp, \* local of the audio parser
    current_luma,      \* local of the audio parser
    luma_threshold,    \* argument
    quiet_threshold,   \* argument
    loud_threshold,    \* argument
    audio_mode,        \* argument
    \* ---- extract_basic_night_timestamps called twice on one file
    first_threshold,   \* luma_threshold of the first call (history)
    first_returned,    \* the value the first call returned (history)
    \* ---- parse_text_analysis
    matches,           \* the matches of ocr_pattern in the file, in file order
    text_timestamps,   \* local dict timestamp -> text length, as the set of
                       \* its <<key, value>> items
    sorted_times,      \* local
    sample_interval,   \* second argument
    \* ---- main
    args,              \* the parsed command line (argparse namespace)
    exit_code,         \* the value main returned (None while it runs)
    stages,            \* the stages main has run so far, in order (history)
    \* ---- float arithmetic
    rounding           \* how the float operations met so far have rounded

segLocals == <<min_duration, current_start, current_end, arg_timestamps, round,
               first_arg, first_scenes>>

credVars == <<text_regions, video_duration, opening_credits, closing_credits,
              all_credits, filtered_scenes, returned>>

frameVars == <<lines, frame_data, current_timestamp, current_luma,
               luma_threshold, quiet_threshold, loud_threshold, audio_mode>>

basicVars == <<first_threshold, first_returned>>

textVars == <<matches, text_timestamps, sorted_times, sample_interval>>

mainVars == <<args, exit_code, stages>>

restVars == <<basicVars, textVars, mainVars>>

vars == <<pc, i, timestamps, scenes, segLocals, credVars, frameVars, restVars,
          rounding>>

\* Python's None, and a local that holds a value v where None is possible.
None == <<>>
Some(v) == <<v>>
\* The return value while the function has not returned.
NotReturned == "not returned"
\* No line: the result of a window scan that found nothing.
NoLine == -1

-----------------------------------------------------------------------------
(* Float arithmetic. Two floats that hold values of the model compare as    *)
(* their ticks do. The result of a float operation (a difference, a sum, a  *)
(* product by 0.1, 0.85 or 1.2, a mean) is the float nearest to the exact   *)
(* result, and that is not always the float that holds the exact result's   *)
(* value: 1.1 - 0.9 is above 0.2 and 0.3 - 0.1 is below it, 3.0 * 0.1 is    *)
(* above 0.3. The two are far less than a tick apart, so the rounding       *)
(* decides a comparison only when the exact values are equal. Which way an  *)
(* operation rounds depends on its operands alone: it is chosen when the    *)
(* operation is first met with equal exact values, and kept in `rounding`   *)
(* as <<operation, x, y, r>>. When every value is a whole number of seconds *)
(* no operation of the program rounds (r = 0).                              *)

\* The rounding of a float result: -1 when it is below the float that holds
\* the exact result's value, 0 when it is that float, 1 when it is above.
Rounding == {-1, 0, 1}

\* The sign of (a float result) - (a float holding a value), the result
\* having the exact value `exact` and the rounding r.
FloatSign(exact, r, held) ==
    IF exact < held THEN -1 ELSE IF exact > held THEN 1 ELSE r

\* The roundings the operation op on (x, y) can have after those of `seen`:
\* the one it had before, or any. x - x is 0 and x + 0 is x without rounding.
Roundings(seen, op, x, y) ==
    IF (op = "sub" /\ x = y) \/ (op = "sum" /\ (x = 0 \/ y = 0)) THEN {0}
    ELSE IF \E r \in Rounding : <<op, x, y, r>> \in seen
    THEN {r \in Rounding : <<op, x, y, r>> \in seen}
    ELSE Rounding

\* `seen` after the operation op on (x, y) has rounded as r; the rounding is
\* kept when it decides a comparison (tie).
Noted(seen, op, x, y, r, tie) ==
    IF tie THEN seen \cup {<<op, x, y, r>>} ELSE seen

-----------------------------------------------------------------------------
(* Bounds of the explored inputs. *)

\* longest timestamp list passed to create_scene_segments
MaxLen == 4
\* timestamps are drawn from 0..MaxTime
MaxTime == 7
\* min_duration is drawn from 1..MaxMinDuration
MaxMinDuration == 2

-----------------------------------------------------------------------------
(* Helpers on sequences. *)

Range(s) == {s[k] : k \in 1..Len(s)}

\* All sequences over S of length at most n.
SeqsUpTo(S, n) == UNION {[1..k -> S] : k \in 0..n}

\* list.sort() on numbers: insertion of each element into a sorted prefix.
RECURSIVE InsertSorted(_, _)
InsertSorted(x, s) ==
    IF s = <<>> THEN <<x>>
    ELSE IF x < Head(s) THEN <<x>> \o s
    ELSE <<Head(s)>> \o InsertSorted(x, Tail(s))

RECURSIVE SortedList(_)
SortedList(s) ==
    IF s = <<>> THEN <<>>
    ELSE InsertSorted(s[Len(s)], SortedList(SubSeq(s, 1, Len(s) - 1)))

-----------------------------------------------------------------------------
(* create_scene_segments, lines 526-554. *)

\* line 540: the gap to the open scene is small enough to extend it,
\* timestamps[i] - current_end <= min_duration * 2; r is the rounding of the
\* difference (the doubling is exact).
ExtendsScene_Strict(t, cur_end, min_dur, r) ==
    FloatSign(t - cur_end, r, min_dur * 2) < 0

ExtendsScene(t, cur_end, min_dur, r) ==
    FloatSign(t - cur_end, r, min_dur * 2) <= 0

\* lines 544-545 and 550-551: the open scene is appended only if long enough,
\* current_end - current_start >= min_duration; r is the rounding of the
\* difference.
CloseScene_Always(scs, cur_start, cur_end, min_dur, r) ==
    Append(scs, <<cur_start, cur_end>>)

CloseScene(scs, cur_start, cur_end, min_dur, r) ==
    IF FloatSign(cur_end - cur_start, r, min_dur) >= 0
    THEN Append(scs, <<cur_start, cur_end>>)
    ELSE scs

\* lines 546-547: the scene opened at list index idx, as <<start, end>>.
OpenScene_FromPrevious(ts, idx) == <<ts[idx], ts[idx + 1]>>

OpenScene(ts, idx) == <<ts[idx + 1], ts[idx + 1]>>

\* lines 530-531: the empty list returns [] at once.
SegEmpty ==
    /\ pc = "seg_call"
    /\ timestamps = <<>>
    /\ scenes' = <<>>
    /\ pc' = "seg_done"
    /\ UNCHANGED <<timestamps, min_duration, current_start, current_end, i,
                   arg_timestamps, round, first_arg, first_scenes>>
    /\ UNCHANGED <<credVars, frameVars>>
    /\ UNCHANGED restVars
    /\ UNCHANGED rounding

\* lines 533-536: sort in place, open the first scene.
SegBegin ==
    /\ pc = "seg_call"
    /\ timestamps # <<>>
    /\ timestamps' = SortedList(timestamps)
    /\ scenes' = <<>>
    /\ current_start' = timestamps'[1]
    /\ current_end' = timestamps'[1]
    /\ i' = 1
    /\ pc' = "seg_sweep"
    /\ UNCHANGED <<min_duration, arg_timestamps, round, first_arg, first_scenes>>
    /\ UNCHANGED <<credVars, frameVars>>
    /\ UNCHANGED restVars
    /\ UNCHANGED rounding

\* lines 538-541: one iteration that extends the open scene.
SegExtend ==
    /\ pc = "seg_sweep"
    /\ i < Len(timestamps)
    /\ \E r \in Roundings(rounding, "sub", timestamps[i + 1], current_end) :
        /\ ExtendsScene(timestamps[i + 1], current_end, min_duration, r)
        /\ rounding' = Noted(rounding, "sub", timestamps[i + 1], current_end, r,
                             timestamps[i + 1] - current_end = min_duration * 2)
    /\ current_end' = timestamps[i + 1]
    /\ i' = i + 1
    /\ UNCHANGED <<pc, timestamps, min_duration, scenes, current_start,
                   arg_timestamps, round, first_arg, first_scenes>>
    /\ UNCHANGED <<credVars, frameVars>>
    /\ UNCHANGED restVars

\* lines 538, 542-547: one iteration that closes the open scene and opens
\* the next one.
SegCut ==
    /\ pc = "seg_sweep"
    /\ i < Len(timestamps)
    /\ \E r \in Roundings(rounding, "sub", timestamps[i + 1], current_end),
          r2 \in Roundings(rounding, "sub", current_end, current_start) :
        /\ ~ExtendsScene(timestamps[i + 1], current_end, min_duration, r)
        /\ scenes' = CloseScene(scenes, current_start, current_end,
                                min_duration, r2)
        /\ rounding' =
               Noted(Noted(rounding, "sub", timestamps[i + 1], current_end, r,
                           timestamps[i + 1] - current_end = min_duration * 2),
                     "sub", current_end, current_start, r2,
                     current_end - current_start = min_duration)
    /\ current_start' = OpenScene(timestamps, i)[1]
    /\ current_end' = OpenScene(timestamps, i)[2]
    /\ i' = i + 1
    /\ UNCHANGED <<pc, timestamps, min_duration, arg_timestamps, round,
                   first_arg, first_scenes>>
    /\ UNCHANGED <<credVars, frameVars>>
    /\ UNCHANGED restVars

\* lines 549-554: the loop is over; close the last scene and return.
SegLast ==
    /\ pc = "seg_sweep"
    /\ i = Len(timestamps)
    /\ \E r \in Roundings(rounding, "sub", current_end, current_start) :
        /\ scenes' = CloseScene(scenes, current_start, current_end,
                                min_duration, r)
        /\ rounding' = Noted(rounding, "sub", current_end, current_start, r,
                             current_end - current_start = min_duration)
    /\ pc' = "seg_done"
    /\ UNCHANGED <<timestamps, min_duration, current_start, current_end, i,
                   arg_timestamps, round, first_arg, first_scenes>>
    /\ UNCHANGED <<credVars, frameVars>>
    /\ UNCHANGED restVars

\* The endpoints of a scene list as a timestamp list: s1, e1, s2, e2, ...
Flatten(scs) ==
    [k \in 1..(2 * Len(scs)) |-> scs[(k + 1) \div 2][IF k % 2 = 1 THEN 1 ELSE 2]]

\* A second call of create_scene_segments, on the flattened result of the
\* first one with the same min_duration.
Resegment ==
    /\ pc = "seg_done"
    /\ round = 1
    /\ first_scenes' = scenes
    /\ timestamps' = Flatten(scenes)
    /\ arg_timestamps' = Flatten(scenes)
    /\ round' = 2
    /\ scenes' = <<>>
    /\ current_start' = None
    /\ current_end' = None
    /\ i' = 0
    /\ pc' = "seg_call"
    /\ UNCHANGED <<min_duration, first_arg>>
    /\ UNCHANGED <<credVars, frameVars>>
    /\ UNCHANGED restVars
    /\ UNCHANGED rounding

\* The variables of the credit filter and of the frame parsers while no such
\* function runs.
CredLocalsIdle ==
    /\ text_regions = <<>>
    /\ video_duration = 0
    /\ opening_credits = <<>>
    /\ closing_credits = <<>>
    /\ all_credits = <<>>
    /\ filtered_scenes = <<>>

CredIdle == CredLocalsIdle /\ returned = NotReturned

FrameIdle ==
    /\ lines = <<>>
    /\ frame_data = <<>>
    /\ current_timestamp = None
    /\ current_luma = None
    /\ luma_threshold = 0
    /\ quiet_threshold = 0
    /\ loud_threshold = 0
    /\ audio_mode = None

\* The variables of the basic extractor's second call, of parse_text_analysis
\* and of main while none of them runs.
BasicIdle ==
    /\ first_threshold = 0
    /\ first_returned = <<>>

TextIdle ==
    /\ matches = <<>>
    /\ text_timestamps = {}
    /\ sorted_times = <<>>
    /\ sample_interval = 0

MainIdle ==
    /\ args = None
    /\ exit_code = None
    /\ stages = <<>>

RestIdle == BasicIdle /\ TextIdle /\ MainIdle

\* The differences of the values of a list, none of which rounds.
ExactDifferences(ts) ==
    {<<"sub", x, y, 0>> : x \in Range(ts), y \in Range(ts)}

\* Scenario A of the specification, [1.0, 1.4, 1.8, 5.0] with min_duration
\* 1.0, in ticks of 0.2 s: none of its comparisons is between equal exact
\* values. Scenario B, [0, 1, 2, 5, 6] with min_duration 1.5, in ticks of
\* 0.5 s: floats hold these values and their differences exactly.
ScenarioA == [ts |-> <<5, 7, 9, 25>>, md |-> 5, seen |-> {}]
ScenarioB == [ts |-> <<0, 2, 4, 10, 12>>, md |-> 3,
              seen |-> ExactDifferences(<<0, 2, 4, 10, 12>>)]

\* The explored arguments: of the lists over 0..MaxTime nothing is known
\* about how their differences round.
SegInputs ==
    {[ts |-> ts, md |-> md, seen |-> {}] :
         ts \in SeqsUpTo(0..MaxTime, MaxLen), md \in 1..MaxMinDuration}
        \cup {ScenarioA, ScenarioB}

SegInit ==
    /\ pc = "seg_call"
    /\ \E in \in SegInputs :
        /\ timestamps = in.ts
        /\ arg_timestamps = in.ts
        /\ first_arg = in.ts
        /\ min_duration = in.md
        /\ rounding = in.seen
    /\ scenes = <<>>
    /\ current_start = None
    /\ current_end = None
    /\ i = 0
    /\ round = 1
    /\ first_scenes = <<>>
    /\ CredIdle
    /\ FrameIdle
    /\ RestIdle

SegNext == SegEmpty \/ SegBegin \/ SegExtend \/ SegCut \/ SegLast \/ Resegment

SpecSeg == SegInit /\ [][SegNext]_vars

-----------------------------------------------------------------------------
(* filter_credits_from_scenes, lines 461-524, with merge_regions. *)

\* longest text-region list passed to filter_credits_from_scenes
MaxRegions == 2
\* longest scene list passed to filter_credits_from_scenes
MaxScenes == 2

\* line 474: start < video_duration * 0.1; r is the rounding of the product.
\* Both sides are taken 10 times.
IsOpening_Inclusive(start, duration, r) ==
    FloatSign(duration, r, 10 * start) >= 0

IsOpening(start, duration, r) == FloatSign(duration, r, 10 * start) > 0

\* line 477: start > video_duration * 0.85; r is the rounding of the product.
\* Both sides are taken 100 times.
IsClosing(start, duration, r) == FloatSign(85 * duration, r, 100 * start) < 0

\* regions.sort(), line 484: tuples are ordered by start, then by end.
RegionLess(a, b) == a[1] < b[1] \/ (a[1] = b[1] /\ a[2] < b[2])

RECURSIVE InsertRegion(_, _)
InsertRegion(r, s) ==
    IF s = <<>> THEN <<r>>
    ELSE IF RegionLess(r, Head(s)) THEN <<r>> \o s
    ELSE <<Head(s)>> \o InsertRegion(r, Tail(s))

RECURSIVE SortedRegions(_)
SortedRegions(s) ==
    IF s = <<>> THEN <<>>
    ELSE InsertRegion(s[Len(s)], SortedRegions(SubSeq(s, 1, Len(s) - 1)))

Max(a, b) == IF a >= b THEN a ELSE b

\* line 487: the next region starts inside or at the end of the last merged one.
MergesIntoLast_Strict(start, last_end) == start < last_end

MergesIntoLast(start, last_end) == start <= last_end

\* lines 486-490: the fold over regions[1:].
RECURSIVE MergeFold(_, _)
MergeFold(merged, rest) ==
    IF rest = <<>> THEN merged
    ELSE LET r == Head(rest)
             last == merged[Len(merged)]
         IN  IF MergesIntoLast(r[1], last[2])
             THEN MergeFold([merged EXCEPT ![Len(merged)] =
                                 <<last[1], Max(last[2], r[2])>>], Tail(rest))
             ELSE MergeFold(Append(merged, r), Tail(rest))

\* lines 481-491
merge_regions(regions) ==
    IF regions = <<>> THEN <<>>
    ELSE LET sorted == SortedRegions(regions)
         IN  MergeFold(<<sorted[1]>>, Tail(sorted))

\* line 512: not (scene_end <= credit_start or scene_start >= credit_end)
Overlaps_Closed(scene_start, scene_end, credit_start, credit_end) ==
    ~(scene_end < credit_start \/ scene_start > credit_end)

Overlaps(scene_start, scene_end, credit_start, credit_end) ==
    ~(scene_end <= credit_start \/ scene_start >= credit_end)

\* lines 508-514: the scene overlaps one of the credit regions.
OverlapsCredits(scene, credits) ==
    \E k \in 1..Len(credits) :
        Overlaps(scene[1], scene[2], credits[k][1], credits[k][2])

\* line 517: filtered_scenes.append((scene_start, scene_end))
AppendScene_Front(filtered, scene_start, scene_end) ==
    <<<<scene_start, scene_end>>>> \o filtered

AppendScene(filtered, scene_start, scene_end) ==
    Append(filtered, <<scene_start, scene_end>>)

\* lines 463-464: no text regions, the scene list itself is returned.
CfEarlyReturn ==
    /\ pc = "cf_call"
    /\ text_regions = <<>>
    /\ returned' = scenes
    /\ pc' = "cf_done"
    /\ UNCHANGED <<i, timestamps, scenes, segLocals, frameVars, text_regions,
                   video_duration, opening_credits, closing_credits,
                   all_credits, filtered_scenes>>
    /\ UNCHANGED restVars
    /\ UNCHANGED rounding

\* lines 466-470
CfEnter ==
    /\ pc = "cf_call"
    /\ text_regions # <<>>
    /\ opening_credits' = <<>>
    /\ closing_credits' = <<>>
    /\ i' = 0
    /\ pc' = "cf_classify"
    /\ UNCHANGED <<timestamps, scenes, segLocals, frameVars, text_regions,
                   video_duration, all_credits, filtered_scenes, returned>>
    /\ UNCHANGED restVars
    /\ UNCHANGED rounding

\* lines 472-475: the region starts in the first 10% of the video.
CfOpening ==
    /\ pc = "cf_classify"
    /\ i < Len(text_regions)
    /\ \E r \in Roundings(rounding, "tenth", video_duration, 0) :
        /\ IsOpening(text_regions[i + 1][1], video_duration, r)
        /\ rounding' = Noted(rounding, "tenth", video_duration, 0, r,
                             10 * text_regions[i + 1][1] = video_duration)
    /\ opening_credits' = Append(opening_credits, text_regions[i + 1])
    /\ i' = i + 1
    /\ UNCHANGED <<pc, timestamps, scenes, segLocals, frameVars, text_regions,
                   video_duration, closing_credits, all_credits,
                   filtered_scenes, returned>>
    /\ UNCHANGED restVars

\* lines 472-478: the region starts in the last 15% of the video.
CfClosing ==
    /\ pc = "cf_classify"
    /\ i < Len(text_regions)
    /\ \E r \in Roundings(rounding, "tenth", video_duration, 0),
          r2 \in Roundings(rounding, "pct85", video_duration, 0) :
        /\ ~IsOpening(text_regions[i + 1][1], video_duration, r)
        /\ IsClosing(text_regions[i + 1][1], video_duration, r2)
        /\ rounding' =
               Noted(Noted(rounding, "tenth", video_duration, 0, r,
                           10 * text_regions[i + 1][1] = video_duration),
                     "pct85", video_duration, 0, r2,
                     100 * text_regions[i + 1][1] = 85 * video_duration)
    /\ closing_credits' = Append(closing_credits, text_regions[i + 1])
    /\ i' = i + 1
    /\ UNCHANGED <<pc, timestamps, scenes, segLocals, frameVars, text_regions,
                   video_duration, opening_credits, all_credits,
                   filtered_scenes, returned>>
    /\ UNCHANGED restVars

\* lines 472-478: the region starts elsewhere and goes to neither list.
CfDiscard ==
    /\ pc = "cf_classify"
    /\ i < Len(text_regions)
    /\ \E r \in Roundings(rounding, "tenth", video_duration, 0),
          r2 \in Roundings(rounding, "pct85", video_duration, 0) :
        /\ ~IsOpening(text_regions[i + 1][1], video_duration, r)
        /\ ~IsClosing(text_regions[i + 1][1], video_duration, r2)
        /\ rounding' =
               Noted(Noted(rounding, "tenth", video_duration, 0, r,
                           10 * text_regions[i + 1][1] = video_duration),
                     "pct85", video_duration, 0, r2,
                     100 * text_regions[i + 1][1] = 85 * video_duration)
    /\ i' = i + 1
    /\ UNCHANGED <<pc, timestamps, scenes, segLocals, frameVars, text_regions,
                   video_duration, opening_credits, closing_credits,
                   all_credits, filtered_scenes, returned>>
    /\ UNCHANGED restVars

\* lines 493-505: both lists are merged and concatenated.
CfMerge ==
    /\ pc = "cf_classify"
    /\ i = Len(text_regions)
    /\ opening_credits' = merge_regions(opening_credits)
    /\ closing_credits' = merge_regions(closing_credits)
    /\ all_credits' = opening_credits' \o closing_credits'
    /\ filtered_scenes' = <<>>
    /\ i' = 0
    /\ pc' = "cf_filter"
    /\ UNCHANGED <<timestamps, scenes, segLocals, frameVars, text_regions,
                   video_duration, returned>>
    /\ UNCHANGED restVars
    /\ UNCHANGED rounding

\* lines 507-517: a scene that overlaps no credit region is kept.
CfKeep ==
    /\ pc = "cf_filter"
    /\ i < Len(scenes)
    /\ ~OverlapsCredits(scenes[i + 1], all_credits)
    /\ filtered_scenes' =
           AppendScene(filtered_scenes, scenes[i + 1][1], scenes[i + 1][2])
    /\ i' = i + 1
    /\ UNCHANGED <<pc, timestamps, scenes, segLocals, frameVars, text_regions,
                   video_duration, opening_credits, closing_credits,
                   all_credits, returned>>
    /\ UNCHANGED restVars
    /\ UNCHANGED rounding

\* lines 507-519: a scene that overlaps a credit region is left out.
CfDrop ==
    /\ pc = "cf_filter"
    /\ i < Len(scenes)
    /\ OverlapsCredits(scenes[i + 1], all_credits)
    /\ i' = i + 1
    /\ UNCHANGED <<pc, timestamps, scenes, segLocals, frameVars, text_regions,
                   video_duration, opening_credits, closing_credits,
                   all_credits, filtered_scenes, returned>>
    /\ UNCHANGED restVars
    /\ UNCHANGED rounding

\* lines 521-524
CfReturn ==
    /\ pc = "cf_filter"
    /\ i = Len(scenes)
    /\ returned' = filtered_scenes
    /\ pc' = "cf_done"
    /\ UNCHANGED <<i, timestamps, scenes, segLocals, frameVars, text_regions,
                   video_duration, opening_credits, closing_credits,
                   all_credits, filtered_scenes>>
    /\ UNCHANGED restVars
    /\ UNCHANGED rounding

\* The explored arguments. Durations of 10 and 20 ticks put the 10% mark at
\* ticks 1 and 2 and the 85% mark at ticks 8.5 and 17; the text regions start
\* on, before and after these marks, and the scenes overlap, touch or avoid
\* the regions.
CreditDurations == {10, 20}

RegionSet ==
    {r \in {0, 1, 2, 17, 18} \X {1, 3, 19} : r[1] < r[2]}

SceneSet ==
    {<<0, 1>>, <<1, 3>>, <<3, 17>>, <<17, 18>>, <<19, 20>>}

\* The variables of the segmenter while it does not run.
SegIdle ==
    /\ timestamps = <<>>
    /\ min_duration = 0
    /\ current_start = None
    /\ current_end = None
    /\ arg_timestamps = <<>>
    /\ round = 0
    /\ first_arg = <<>>
    /\ first_scenes = <<>>

CredInit ==
    /\ pc = "cf_call"
    /\ i = 0
    /\ scenes \in SeqsUpTo(SceneSet, MaxScenes)
    /\ text_regions \in SeqsUpTo(RegionSet, MaxRegions)
    /\ video_duration \in CreditDurations
    /\ rounding = {}
    /\ opening_credits = <<>>
    /\ closing_credits = <<>>
    /\ all_credits = <<>>
    /\ filtered_scenes = <<>>
    /\ returned = NotReturned
    /\ SegIdle
    /\ FrameIdle
    /\ RestIdle

CredNext ==
    \/ CfEarlyReturn \/ CfEnter \/ CfOpening \/ CfClosing \/ CfDiscard
    \/ CfMerge \/ CfKeep \/ CfDrop \/ CfReturn

SpecCredits == CredInit /\ [][CredNext]_vars

-----------------------------------------------------------------------------
(* The lines of the analysis file. A line matching showinfo_pattern is a     *)
(* "frame" line with its pts_time and mean luminance, a line matching        *)
(* audio_rms_pattern an "audio" line with its RMS level, a line holding      *)
(* 'edge' and matching edge.*:([0-9.]+) an "edge" line with its value, any   *)
(* other line an "other" line. The text an edge line's pattern matches is    *)
(* made of digits and dots and need not be a number ('1.2.3', '.'): the      *)
(* value of such a line is NotANumber.                                       *)

\* The value of an edge line whose matched text float() rejects (line 352).
NotANumber == -1

FrameLine(ts, luma) == [kind |-> "frame", ts |-> ts, luma |-> luma]
AudioLine(rms) == [kind |-> "audio", rms |-> rms]
EdgeLine(edge) == [kind |-> "edge", edge |-> edge]
OtherLine == [kind |-> "other"]

Min(a, b) == IF a <= b THEN a ELSE b

\* range(max(0, idx - w), min(len(lines), idx + w + 1)): lines 347 and 417.
Window(idx, w, n) == Max(0, idx - w)..(Min(n, idx + w + 1) - 1)

\* The first line of the window, in file order, that is of the kind looked
\* for (the scan stops at the first match: lines 351-353 and 419-421), or
\* NoLine.
FirstMatch(ls, idx, w, kind) ==
    LET M == {j \in Window(idx, w, Len(ls)) : ls[j + 1].kind = kind}
    IN  IF M = {} THEN NoLine
        ELSE CHOOSE j \in M : \A k \in M : j <= k

\* lines 321, 377, 438: frame['luma'] < luma_threshold
IsDark_Inclusive(luma, threshold) == luma <= threshold

IsDark(luma, threshold) == luma < threshold

-----------------------------------------------------------------------------
(* extract_audio_correlated_timestamps, lines 389-459. *)

\* line 417: the window is 5 lines before and after.
AudioWindow == 5
\* longest analysis file given to the audio parser
MaxAudioLines == 7

\* lines 408-411: the frame held after line idx has been looked at.
HeldTimestamp(ls, idx, held) ==
    IF ls[idx + 1].kind = "frame" THEN Some(ls[idx + 1].ts) ELSE held

HeldLuma(ls, idx, held) ==
    IF ls[idx + 1].kind = "frame" THEN Some(ls[idx + 1].luma) ELSE held

\* lines 442-451
AudioMatches_BothQuietOnly(audio_rms, mode, quiet, loud) ==
    LET is_quiet == audio_rms < quiet
        is_loud == audio_rms > loud
    IN  \/ mode = "quiet" /\ is_quiet
        \/ mode = "loud" /\ is_loud
        \/ mode = "both" /\ is_quiet

AudioMatches(audio_rms, mode, quiet, loud) ==
    LET is_quiet == audio_rms < quiet
        is_loud == audio_rms > loud
    IN  \/ mode = "quiet" /\ is_quiet
        \/ mode = "loud" /\ is_loud
        \/ mode = "both" /\ (is_quiet \/ is_loud)

\* lines 437-454: the timestamps of the dark frames whose audio matches.
RECURSIVE SelectAudioFrames(_, _, _, _, _)
SelectAudioFrames(frames, threshold, mode, quiet, loud) ==
    IF frames = <<>> THEN <<>>
    ELSE LET frame == Head(frames)
             rest == SelectAudioFrames(Tail(frames), threshold, mode, quiet,
                                       loud)
         IN  IF IsDark(frame.luma, threshold)
                  /\ AudioMatches(frame.audio_rms, mode, quiet, loud)
             THEN <<frame.timestamp>> \o rest
             ELSE rest

\* lines 406-414: a line looked at while no frame is held.
AudioNoFrame ==
    /\ pc = "audio_parse"
    /\ i < Len(lines)
    /\ HeldTimestamp(lines, i, current_timestamp) = None
    /\ i' = i + 1
    /\ UNCHANGED <<pc, timestamps, scenes, segLocals, credVars, frameVars>>
    /\ UNCHANGED restVars
    /\ UNCHANGED rounding

\* lines 406-423: a frame is held and the window of this line has no audio
\* line; the frame stays held.
AudioMiss ==
    /\ pc = "audio_parse"
    /\ i < Len(lines)
    /\ HeldTimestamp(lines, i, current_timestamp) # None
    /\ FirstMatch(lines, i, AudioWindow, "audio") = NoLine
    /\ current_timestamp' = HeldTimestamp(lines, i, current_timestamp)
    /\ current_luma' = HeldLuma(lines, i, current_luma)
    /\ i' = i + 1
    /\ UNCHANGED <<pc, timestamps, scenes, segLocals, credVars, lines,
                   frame_data, luma_threshold, quiet_threshold,
                   loud_threshold, audio_mode>>
    /\ UNCHANGED restVars
    /\ UNCHANGED rounding

\* lines 406-430: a frame is held and the window of this line has an audio
\* line; a record is appended and the frame released.
AudioPair ==
    /\ pc = "audio_parse"
    /\ i < Len(lines)
    /\ HeldTimestamp(lines, i, current_timestamp) # None
    /\ FirstMatch(lines, i, AudioWindow, "audio") # NoLine
    /\ frame_data' = Append(frame_data,
           [timestamp |-> HeldTimestamp(lines, i, current_timestamp)[1],
            luma |-> HeldLuma(lines, i, current_luma)[1],
            audio_rms |-> lines[FirstMatch(lines, i, AudioWindow, "audio") + 1].rms])
    /\ current_timestamp' = None
    /\ current_luma' = None
    /\ i' = i + 1
    /\ UNCHANGED <<pc, timestamps, scenes, segLocals, credVars, lines,
                   luma_threshold, quiet_threshold, loud_threshold,
                   audio_mode>>
    /\ UNCHANGED restVars
    /\ UNCHANGED rounding

\* lines 432-434: no record, the empty list is returned.
AudioNoData ==
    /\ pc = "audio_parse"
    /\ i = Len(lines)
    /\ frame_data = <<>>
    /\ returned' = timestamps
    /\ pc' = "audio_done"
    /\ UNCHANGED <<i, timestamps, scenes, segLocals, frameVars, text_regions,
                   video_duration, opening_credits, closing_credits,
                   all_credits, filtered_scenes>>
    /\ UNCHANGED restVars
    /\ UNCHANGED rounding

\* lines 436-459: the records are filtered and the timestamps returned.
AudioSelect ==
    /\ pc = "audio_parse"
    /\ i = Len(lines)
    /\ frame_data # <<>>
    /\ timestamps' = SelectAudioFrames(frame_data, luma_threshold, audio_mode,
                                       quiet_threshold, loud_threshold)
    /\ returned' = timestamps'
    /\ pc' = "audio_done"
    /\ UNCHANGED <<i, scenes, segLocals, frameVars, text_regions,
                   video_duration, opening_credits, closing_credits,
                   all_credits, filtered_scenes>>
    /\ UNCHANGED restVars
    /\ UNCHANGED rounding

\* The explored files: every line is a dark frame (luminance 10), a bright
\* frame (200), an audio line at -50 dB or at -20 dB, or another line; the
\* frame on line p (0-based) has pts_time p. The thresholds are the command
\* line's defaults (lines 681-686 and 717).
AudioAlphabet ==
    {FrameLine(0, 10), FrameLine(0, 200), AudioLine(-50), AudioLine(-20),
     OtherLine}

Stamped(ls) ==
    [p \in 1..Len(ls) |->
        IF ls[p].kind = "frame" THEN FrameLine(p - 1, ls[p].luma) ELSE ls[p]]

AudioInit ==
    /\ pc = "audio_parse"
    /\ i = 0
    /\ \E ls \in SeqsUpTo(AudioAlphabet, MaxAudioLines) : lines = Stamped(ls)
    /\ frame_data = <<>>
    /\ current_timestamp = None
    /\ current_luma = None
    /\ luma_threshold = 30
    /\ quiet_threshold = -40
    /\ loud_threshold = -10
    /\ audio_mode = "both"
    /\ scenes = <<>>
    /\ returned = NotReturned
    /\ SegIdle
    /\ CredLocalsIdle
    /\ RestIdle
    /\ rounding = {}

AudioNext ==
    AudioNoFrame \/ AudioMiss \/ AudioPair \/ AudioNoData \/ AudioSelect

SpecAudio == AudioInit /\ [][AudioNext]_vars

\* The same function under every audio mode and several thresholds, on
\* shorter files: the audio lines are at -50, -40, -20 and -5 dB, the quiet
\* and loud thresholds are the defaults (-40, -10), the defaults exchanged,
\* or both -20, and the mode is one of the three choices of line 685.
MaxModeLines == 4

ModeAlphabet ==
    {FrameLine(0, 10), FrameLine(0, 200), AudioLine(-50), AudioLine(-40),
     AudioLine(-20), AudioLine(-5), OtherLine}

ModeThresholds == {<<-40, -10>>, <<-10, -40>>, <<-20, -20>>}

AudioModes == {"quiet", "loud", "both"}

AudioModesInit ==
    /\ pc = "audio_parse"
    /\ i = 0
    /\ \E ls \in SeqsUpTo(ModeAlphabet, MaxModeLines) : lines = Stamped(ls)
    /\ frame_data = <<>>
    /\ current_timestamp = None
    /\ current_luma = None
    /\ luma_threshold = 30
    /\ \E th \in ModeThresholds :
        /\ quiet_threshold = th[1]
        /\ loud_threshold = th[2]
    /\ audio_mode \in AudioModes
    /\ scenes = <<>>
    /\ returned = NotReturned
    /\ SegIdle
    /\ CredLocalsIdle
    /\ RestIdle
    /\ rounding = {}

SpecAudioModes == AudioModesInit /\ [][AudioNext]_vars

-----------------------------------------------------------------------------
(* extract_establishing_shot_timestamps, lines 327-387. *)

\* line 347: the window is 2 lines before and after.
EdgeWindow == 2
\* longest analysis file given to the establishing-shot parser
MaxEdgeLines == 5

\* lines 346-353: the edge value paired with the frame on line idx: 0, or
\* the value of the first edge line of the window (NotANumber when float()
\* raises on its text).
EdgeComplexity(ls, idx) ==
    IF FirstMatch(ls, idx, EdgeWindow, "edge") = NoLine THEN 0
    ELSE ls[FirstMatch(ls, idx, EdgeWindow, "edge") + 1].edge

\* line 366: the positive edge values, as their sum and their number.
RECURSIVE EdgeSum(_)
EdgeSum(frames) ==
    IF frames = <<>> THEN 0
    ELSE (IF Head(frames).edges > 0 THEN Head(frames).edges ELSE 0)
             + EdgeSum(Tail(frames))

RECURSIVE EdgeCount(_)
EdgeCount(frames) ==
    IF frames = <<>> THEN 0
    ELSE (IF Head(frames).edges > 0 THEN 1 ELSE 0) + EdgeCount(Tail(frames))

\* lines 367-372 and 378: edges >= sum / len * 1.2 when there is a positive
\* edge value, True otherwise; r is the rounding of the threshold (of the
\* sum, the division and the product together). Both sides are taken
\* 10 * count times.
IsComplex_NoMargin(edges, sum, count, r) ==
    IF count > 0 THEN FloatSign(sum, r, edges * count) <= 0 ELSE TRUE

IsComplex(edges, sum, count, r) ==
    IF count > 0 THEN FloatSign(12 * sum, r, 10 * edges * count) <= 0 ELSE TRUE

\* lines 376-381: the timestamps of the dark and complex frames.
RECURSIVE SelectEstablishing(_, _, _, _, _)
SelectEstablishing(frames, threshold, sum, count, r) ==
    IF frames = <<>> THEN <<>>
    ELSE LET frame == Head(frames)
             rest == SelectEstablishing(Tail(frames), threshold, sum, count, r)
         IN  IF IsDark(frame.luma, threshold)
                  /\ IsComplex(frame.edges, sum, count, r)
             THEN <<frame.timestamp>> \o rest
             ELSE rest

\* lines 339-341: a line that is no frame line.
EstSkip ==
    /\ pc = "est_parse"
    /\ i < Len(lines)
    /\ lines[i + 1].kind # "frame"
    /\ i' = i + 1
    /\ UNCHANGED <<pc, timestamps, scenes, segLocals, credVars, frameVars>>
    /\ UNCHANGED restVars
    /\ UNCHANGED rounding

\* lines 339-352: a frame line whose window's first edge line holds no
\* number; float() raises ValueError and the function ends without a return
\* value.
EstError ==
    /\ pc = "est_parse"
    /\ i < Len(lines)
    /\ lines[i + 1].kind = "frame"
    /\ EdgeComplexity(lines, i) = NotANumber
    /\ pc' = "est_error"
    /\ UNCHANGED <<i, timestamps, scenes, segLocals, credVars, frameVars>>
    /\ UNCHANGED restVars
    /\ UNCHANGED rounding

\* lines 339-359: a frame line; its record is appended with the edge value
\* found in the window, or 0.
EstFrame ==
    /\ pc = "est_parse"
    /\ i < Len(lines)
    /\ lines[i + 1].kind = "frame"
    /\ EdgeComplexity(lines, i) # NotANumber
    /\ frame_data' = Append(frame_data,
           [timestamp |-> lines[i + 1].ts,
            luma |-> lines[i + 1].luma,
            edges |-> EdgeComplexity(lines, i)])
    /\ i' = i + 1
    /\ UNCHANGED <<pc, timestamps, scenes, segLocals, credVars, lines,
                   current_timestamp, current_luma, luma_threshold,
                   quiet_threshold, loud_threshold, audio_mode>>
    /\ UNCHANGED restVars
    /\ UNCHANGED rounding

\* lines 361-363: no record, the empty list is returned.
EstNoData ==
    /\ pc = "est_parse"
    /\ i = Len(lines)
    /\ frame_data = <<>>
    /\ returned' = timestamps
    /\ pc' = "est_done"
    /\ UNCHANGED <<i, timestamps, scenes, segLocals, frameVars, text_regions,
                   video_duration, opening_credits, closing_credits,
                   all_credits, filtered_scenes>>
    /\ UNCHANGED restVars
    /\ UNCHANGED rounding

\* lines 365-387: the threshold is computed over all records, then the
\* records are filtered and the timestamps returned.
EstSelect ==
    /\ pc = "est_parse"
    /\ i = Len(lines)
    /\ frame_data # <<>>
    /\ \E r \in Roundings(rounding, "mean", EdgeSum(frame_data),
                          EdgeCount(frame_data)) :
        /\ timestamps' = SelectEstablishing(frame_data, luma_threshold,
                                            EdgeSum(frame_data),
                                            EdgeCount(frame_data), r)
        /\ rounding' =
               Noted(rounding, "mean", EdgeSum(frame_data),
                     EdgeCount(frame_data), r,
                     \E k \in 1..Len(frame_data) :
                         10 * frame_data[k].edges * EdgeCount(frame_data)
                             = 12 * EdgeSum(frame_data))
    /\ returned' = timestamps'
    /\ pc' = "est_done"
    /\ UNCHANGED <<i, scenes, segLocals, frameVars, text_regions,
                   video_duration, opening_credits, closing_credits,
                   all_credits, filtered_scenes>>
    /\ UNCHANGED restVars

\* The explored files: every line is a dark frame (luminance 10), a bright
\* frame (200), an edge line of value 0, 2 or 3 or without a number, or
\* another line; the frame on line p (0-based) has pts_time p. With the
\* edge values 2 and 3 the threshold 1.2 x 2.5 is exactly 3.
EdgeAlphabet ==
    {FrameLine(0, 10), FrameLine(0, 200), EdgeLine(0), EdgeLine(2),
     EdgeLine(3), EdgeLine(NotANumber), OtherLine}

EstInit ==
    /\ pc = "est_parse"
    /\ i = 0
    /\ \E ls \in SeqsUpTo(EdgeAlphabet, MaxEdgeLines) : lines = Stamped(ls)
    /\ frame_data = <<>>
    /\ current_timestamp = None
    /\ current_luma = None
    /\ luma_threshold = 30
    /\ quiet_threshold = -40
    /\ loud_threshold = -10
    /\ audio_mode = "both"
    /\ scenes = <<>>
    /\ returned = NotReturned
    /\ SegIdle
    /\ CredLocalsIdle
    /\ RestIdle
    /\ rounding = {}

EstNext == EstSkip \/ EstError \/ EstFrame \/ EstNoData \/ EstSelect

SpecEdge == EstInit /\ [][EstNext]_vars

-----------------------------------------------------------------------------
(* extract_basic_night_timestamps, lines 307-325. *)

\* longest analysis file given to the basic extractor
MaxBasicLines == 4

\* lines 316-321: the line is a frame line and its luminance is below the
\* threshold.
SelectsLine(line, threshold) ==
    line.kind = "frame" /\ IsDark(line.luma, threshold)

\* lines 315-322 over a whole file: the timestamps appended, in file order.
RECURSIVE BasicTimestamps(_, _)
BasicTimestamps(ls, threshold) ==
    IF ls = <<>> THEN <<>>
    ELSE LET rest == BasicTimestamps(Tail(ls), threshold)
         IN  IF SelectsLine(Head(ls), threshold)
             THEN <<Head(ls).ts>> \o rest
             ELSE rest

\* lines 315-317: a line that does not match showinfo_pattern.
BasicSkip ==
    /\ pc = "basic_parse"
    /\ i < Len(lines)
    /\ lines[i + 1].kind # "frame"
    /\ i' = i + 1
    /\ UNCHANGED <<pc, timestamps, scenes, segLocals, credVars, frameVars,
                   restVars>>
    /\ UNCHANGED rounding

\* lines 315-321: a frame line that is not dark.
BasicBright ==
    /\ pc = "basic_parse"
    /\ i < Len(lines)
    /\ lines[i + 1].kind = "frame"
    /\ ~SelectsLine(lines[i + 1], luma_threshold)
    /\ i' = i + 1
    /\ UNCHANGED <<pc, timestamps, scenes, segLocals, credVars, frameVars,
                   restVars>>
    /\ UNCHANGED rounding

\* lines 315-322: a dark frame line; its timestamp is appended.
BasicDark ==
    /\ pc = "basic_parse"
    /\ i < Len(lines)
    /\ SelectsLine(lines[i + 1], luma_threshold)
    /\ timestamps' = Append(timestamps, lines[i + 1].ts)
    /\ i' = i + 1
    /\ UNCHANGED <<pc, scenes, segLocals, credVars, frameVars, restVars>>
    /\ UNCHANGED rounding

\* lines 324-325
BasicReturn ==
    /\ pc = "basic_parse"
    /\ i = Len(lines)
    /\ returned' = timestamps
    /\ pc' = "basic_done"
    /\ UNCHANGED <<i, timestamps, scenes, segLocals, frameVars, text_regions,
                   video_duration, opening_credits, closing_credits,
                   all_credits, filtered_scenes, restVars>>
    /\ UNCHANGED rounding

\* The explored files and thresholds: a frame has luminance 10, 30 or 31, and
\* the threshold is below, at and above these values.
BasicAlphabet ==
    {FrameLine(0, 10), FrameLine(0, 30), FrameLine(0, 31), OtherLine}

BasicThresholds == {10, 30, 31, 32}

\* A second call on the same file (line 309 starts a new list), with a
\* threshold that is not lower.
BasicAgain ==
    /\ pc = "basic_done"
    /\ round = 1
    /\ first_threshold' = luma_threshold
    /\ first_returned' = returned
    /\ luma_threshold' \in {b \in BasicThresholds : b >= luma_threshold}
    /\ timestamps' = <<>>
    /\ returned' = NotReturned
    /\ i' = 0
    /\ round' = 2
    /\ pc' = "basic_parse"
    /\ UNCHANGED <<scenes, min_duration, current_start, current_end,
                   arg_timestamps, first_arg, first_scenes, text_regions,
                   video_duration, opening_credits, closing_credits,
                   all_credits, filtered_scenes, lines, frame_data,
                   current_timestamp, current_luma, quiet_threshold,
                   loud_threshold, audio_mode, textVars, mainVars>>
    /\ UNCHANGED rounding

BasicInit ==
    /\ pc = "basic_parse"
    /\ i = 0
    /\ \E ls \in SeqsUpTo(BasicAlphabet, MaxBasicLines) : lines = Stamped(ls)
    /\ luma_threshold \in BasicThresholds
    /\ timestamps = <<>>
    /\ returned = NotReturned
    /\ round = 1
    /\ scenes = <<>>
    /\ min_duration = 0
    /\ current_start = None
    /\ current_end = None
    /\ arg_timestamps = <<>>
    /\ first_arg = <<>>
    /\ first_scenes = <<>>
    /\ frame_data = <<>>
    /\ current_timestamp = None
    /\ current_luma = None
    /\ quiet_threshold = 0
    /\ loud_threshold = 0
    /\ audio_mode = None
    /\ CredLocalsIdle
    /\ RestIdle
    /\ rounding = {}

BasicNext ==
    BasicSkip \/ BasicBright \/ BasicDark \/ BasicReturn \/ BasicAgain

SpecBasic == BasicInit /\ [][BasicNext]_vars

-----------------------------------------------------------------------------
(* main, lines 649-802. Durations and intervals are in ticks of 0.1 s. An   *)
(* option of the command line that was not given is None, one that was      *)
(* given (or has been set since) is Some(value). The external collaborators *)
(* (ffprobe, ffmpeg, the file system) are nondeterministic: each may fail,  *)
(* and the extractor and the text detection return one of a few lists.      *)

\* longest timestamp list the extractor returns to main
MaxMainLen == 2

PresetNames == {"high", "medium", "low", "quick", "tv", "movie"}

\* lines 13-62
PRESETS ==
    [name \in PresetNames |->
        CASE name = "high" ->
               [luma |-> 40, duration |-> 5, interval |-> 5,
                skip_credits |-> TRUE, credits_sample_interval |-> 20]
          [] name = "medium" ->
               [luma |-> 30, duration |-> 10, interval |-> 10,
                skip_credits |-> TRUE, credits_sample_interval |-> 30]
          [] name = "low" ->
               [luma |-> 20, duration |-> 20, interval |-> 20,
                skip_credits |-> FALSE, credits_sample_interval |-> 30]
          [] name = "quick" ->
               [luma |-> 25, duration |-> 15, interval |-> 30,
                skip_credits |-> FALSE, credits_sample_interval |-> 60]
          [] name = "tv" ->
               [luma |-> 35, duration |-> 8, interval |-> 10,
                skip_credits |-> TRUE, credits_sample_interval |-> 15]
          [] name = "movie" ->
               [luma |-> 28, duration |-> 15, interval |-> 15,
                skip_credits |-> TRUE, credits_sample_interval |-> 30]]

\* A string given to get_preset_config is the sequence of its characters'
\* code points; the code points of the keys of PRESETS:
Codes ==
    [name \in PresetNames |->
        CASE name = "high" -> <<104, 105, 103, 104>>
          [] name = "medium" -> <<109, 101, 100, 105, 117, 109>>
          [] name = "low" -> <<108, 111, 119>>
          [] name = "quick" -> <<113, 117, 105, 99, 107>>
          [] name = "tv" -> <<116, 118>>
          [] name = "movie" -> <<109, 111, 118, 105, 101>>]

\* line 66, str.lower(): the code points of the characters that lower() turns
\* into the lower-case ASCII letter c. These are c itself, its upper-case
\* letter and, for k, U+212A KELVIN SIGN; lower() maps every other character
\* to a non-ASCII character, to itself, or to two characters (U+0130).
LowersTo(c) == {c, c - 32} \cup (IF c = 107 THEN {8490} ELSE {})

\* line 66: preset_name.lower() is the key.
LowerIs(preset_name, key) ==
    /\ Len(preset_name) = Len(Codes[key])
    /\ \A k \in 1..Len(preset_name) : preset_name[k] \in LowersTo(Codes[key][k])

\* lines 64-66: PRESETS.get(preset_name.lower()), None when the lowered name
\* is no key of PRESETS.
get_preset_config(preset_name) ==
    IF \E name \in PresetNames : LowerIs(preset_name, name)
    THEN PRESETS[CHOOSE name \in PresetNames : LowerIs(preset_name, name)]
    ELSE None

\* lines 704-711 and 716-723: "if args.x is None: args.x = value".
SetIfNone(current, value) == IF current = None THEN Some(value) ELSE current

\* lines 764, 771, 780: "if not timestamps", "if not scenes".
IsEmpty_Never(list) == FALSE

IsEmpty(list) == list = <<>>

Last(s) == s[Len(s)]

\* lines 695-713: a preset was named and get_preset_config knows it (line 666
\* lets argparse accept only the keys of PRESETS, spelled as they are, so
\* lines 697-699 are never reached); its values fill the options left unset.
MainPreset ==
    /\ pc = "main_args"
    /\ args.preset # None
    /\ get_preset_config(Codes[args.preset[1]]) # None
    /\ LET preset_config == get_preset_config(Codes[args.preset[1]])
       IN  args' = [args EXCEPT
               !.luma = SetIfNone(@, preset_config.luma),
               !.duration = SetIfNone(@, preset_config.duration),
               !.interval = SetIfNone(@, preset_config.interval),
               !.credits_sample_interval =
                   SetIfNone(@, preset_config.credits_sample_interval),
               !.skip_credits =
                   IF ~@ THEN preset_config.skip_credits ELSE @]
    /\ pc' = "main_deps"
    /\ UNCHANGED <<i, timestamps, scenes, segLocals, credVars, frameVars,
                   basicVars, textVars, exit_code, stages>>
    /\ UNCHANGED rounding

\* lines 714-723: no preset; the defaults fill the options left unset.
MainDefaults ==
    /\ pc = "main_args"
    /\ args.preset = None
    /\ args' = [args EXCEPT
           !.luma = SetIfNone(@, 30),
           !.duration = SetIfNone(@, 10),
           !.interval = SetIfNone(@, 10),
           !.credits_sample_interval = SetIfNone(@, 30)]
    /\ pc' = "main_deps"
    /\ UNCHANGED <<i, timestamps, scenes, segLocals, credVars, frameVars,
                   basicVars, textVars, exit_code, stages>>
    /\ UNCHANGED rounding

\* line 726 with lines 92-107: a required tool is missing, sys.exit(1).
MainDepsMissing ==
    /\ pc = "main_deps"
    /\ exit_code' = Some(1)
    /\ pc' = "main_exit"
    /\ UNCHANGED <<i, timestamps, scenes, segLocals, credVars, frameVars,
                   basicVars, textVars, args, stages>>
    /\ UNCHANGED rounding

\* line 726: the tools are there.
MainDepsOk ==
    /\ pc = "main_deps"
    /\ stages' = Append(stages, "dependencies")
    /\ pc' = "main_file"
    /\ UNCHANGED <<i, timestamps, scenes, segLocals, credVars, frameVars,
                   basicVars, textVars, args, exit_code>>
    /\ UNCHANGED rounding

\* lines 734-737: the input file does not exist.
MainFileMissing ==
    /\ pc = "main_file"
    /\ exit_code' = Some(1)
    /\ pc' = "main_exit"
    /\ UNCHANGED <<i, timestamps, scenes, segLocals, credVars, frameVars,
                   basicVars, textVars, args, stages>>
    /\ UNCHANGED rounding

\* lines 739-750
MainStart ==
    /\ pc = "main_file"
    /\ stages' = Append(stages, "input_file")
    /\ pc' = "main_info"
    /\ UNCHANGED <<i, timestamps, scenes, segLocals, credVars, frameVars,
                   basicVars, textVars, args, exit_code>>
    /\ UNCHANGED rounding

\* The durations get_video_info returns.
MainDurations == {1000}

\* line 754
MainVideoInfo ==
    /\ pc = "main_info"
    /\ video_duration' \in MainDurations
    /\ stages' = Append(stages, "video_info")
    /\ pc' = "main_analyze"
    /\ UNCHANGED <<i, timestamps, scenes, segLocals, frameVars, basicVars,
                   textVars, args, exit_code, text_regions, opening_credits,
                   closing_credits, all_credits, filtered_scenes, returned>>
    /\ UNCHANGED rounding

\* line 757
MainAnalyze ==
    /\ pc = "main_analyze"
    /\ stages' = Append(stages, "analysis")
    /\ pc' = "main_select"
    /\ UNCHANGED <<i, timestamps, scenes, segLocals, credVars, frameVars,
                   basicVars, textVars, args, exit_code>>
    /\ UNCHANGED rounding

\* The lists extract_night_timestamps returns to main.
MainTimes == {0, 10, 50}

\* lines 760-762
MainSelect ==
    /\ pc = "main_select"
    /\ timestamps' \in SeqsUpTo(MainTimes, MaxMainLen)
    /\ stages' = Append(stages, "selection")
    /\ pc' = "main_selected"
    /\ UNCHANGED <<i, scenes, segLocals, credVars, frameVars, basicVars,
                   textVars, args, exit_code>>
    /\ UNCHANGED rounding

\* lines 764-766
MainNoTimestamps ==
    /\ pc = "main_selected"
    /\ IsEmpty(timestamps)
    /\ exit_code' = Some(0)
    /\ pc' = "main_exit"
    /\ UNCHANGED <<i, timestamps, scenes, segLocals, credVars, frameVars,
                   basicVars, textVars, args, stages>>
    /\ UNCHANGED rounding

\* lines 764, 769: create_scene_segments is called with the list and
\* args.duration.
MainSegment ==
    /\ pc = "main_selected"
    /\ ~IsEmpty(timestamps)
    /\ min_duration' = args.duration[1]
    /\ arg_timestamps' = timestamps
    /\ stages' = Append(stages, "segmentation")
    /\ pc' = "seg_call"
    /\ UNCHANGED <<i, timestamps, scenes, current_start, current_end, round,
                   first_arg, first_scenes, credVars, frameVars, basicVars,
                   textVars, args, exit_code>>
    /\ UNCHANGED rounding

\* lines 771-773
MainNoScenes ==
    /\ pc = "seg_done"
    /\ IsEmpty(scenes)
    /\ exit_code' = Some(0)
    /\ pc' = "main_exit"
    /\ UNCHANGED <<i, timestamps, scenes, segLocals, credVars, frameVars,
                   basicVars, textVars, args, stages>>
    /\ UNCHANGED rounding

\* The lists detect_text_regions returns to main (the empty list also when
\* the text detection failed, lines 229-235).
MainRegionLists ==
    {<<>>, << <<0, 20>> >>, << <<500, 600>>, <<900, 950>> >>}

\* lines 771, 776-778: credits are to be skipped; the text regions are
\* detected and filter_credits_from_scenes is called.
MainDetectCredits ==
    /\ pc = "seg_done"
    /\ ~IsEmpty(scenes)
    /\ args.skip_credits
    /\ text_regions' \in MainRegionLists
    /\ returned' = NotReturned
    /\ i' = 0
    /\ stages' = Append(stages, "credit_detection")
    /\ pc' = "cf_call"
    /\ UNCHANGED <<timestamps, scenes, segLocals, video_duration,
                   opening_credits, closing_credits, all_credits,
                   filtered_scenes, frameVars, basicVars, textVars, args,
                   exit_code>>
    /\ UNCHANGED rounding

\* lines 771, 776: credits are not to be skipped.
MainKeepCredits ==
    /\ pc = "seg_done"
    /\ ~IsEmpty(scenes)
    /\ ~args.skip_credits
    /\ pc' = "main_extract"
    /\ UNCHANGED <<i, timestamps, scenes, segLocals, credVars, frameVars,
                   basicVars, textVars, mainVars>>
    /\ UNCHANGED rounding

\* lines 778-782: the filter's result replaces the scene list and is empty.
MainNoneLeft ==
    /\ pc = "cf_done"
    /\ scenes' = returned
    /\ IsEmpty(scenes')
    /\ stages' = Append(stages, "credit_filter")
    /\ exit_code' = Some(0)
    /\ pc' = "main_exit"
    /\ UNCHANGED <<i, timestamps, segLocals, credVars, frameVars, basicVars,
                   textVars, args>>
    /\ UNCHANGED rounding

\* lines 778-780: the filter's result replaces the scene list and is not
\* empty.
MainFiltered ==
    /\ pc = "cf_done"
    /\ scenes' = returned
    /\ ~IsEmpty(scenes')
    /\ stages' = Append(stages, "credit_filter")
    /\ pc' = "main_extract"
    /\ UNCHANGED <<i, timestamps, segLocals, credVars, frameVars, basicVars,
                   textVars, args, exit_code>>
    /\ UNCHANGED rounding

\* lines 785-787: -v was given.
MainExtractVideos ==
    /\ pc = "main_extract"
    /\ args.extract_videos
    /\ stages' = Append(stages, "extract_videos")
    /\ pc' = "main_report"
    /\ UNCHANGED <<i, timestamps, scenes, segLocals, credVars, frameVars,
                   basicVars, textVars, args, exit_code>>
    /\ UNCHANGED rounding

\* lines 730, 788-790: frames only.
MainExtractFrames ==
    /\ pc = "main_extract"
    /\ ~args.extract_videos
    /\ ~args.no_frames
    /\ stages' = Append(stages, "extract_frames")
    /\ pc' = "main_report"
    /\ UNCHANGED <<i, timestamps, scenes, segLocals, credVars, frameVars,
                   basicVars, textVars, args, exit_code>>
    /\ UNCHANGED rounding

\* lines 785-790: neither videos nor frames.
MainExtractNothing ==
    /\ pc = "main_extract"
    /\ ~args.extract_videos
    /\ args.no_frames
    /\ pc' = "main_report"
    /\ UNCHANGED <<i, timestamps, scenes, segLocals, credVars, frameVars,
                   basicVars, textVars, mainVars>>
    /\ UNCHANGED rounding

\* lines 793-802
MainReport ==
    /\ pc = "main_report"
    /\ stages' = Append(stages, "report")
    /\ exit_code' = Some(0)
    /\ pc' = "main_exit"
    /\ UNCHANGED <<i, timestamps, scenes, segLocals, credVars, frameVars,
                   basicVars, textVars, args>>
    /\ UNCHANGED rounding

\* lines 798-800: an external call of the try block raised.
MainError ==
    /\ pc \in {"main_info", "main_analyze", "main_select", "main_extract",
               "main_report"}
    /\ exit_code' = Some(1)
    /\ pc' = "main_exit"
    /\ UNCHANGED <<i, timestamps, scenes, segLocals, credVars, frameVars,
                   basicVars, textVars, args, stages>>
    /\ UNCHANGED rounding

\* The explored command lines: any preset or none, and each of -l, -d, -i and
\* --credits-sample-interval given with one value or not given.
MainArgs ==
    [preset : {None} \cup {Some(name) : name \in PresetNames},
     luma : {None, Some(10)},
     duration : {None, Some(3)},
     interval : {None, Some(7)},
     credits_sample_interval : {None, Some(45)},
     skip_credits : BOOLEAN,
     extract_videos : BOOLEAN,
     no_frames : BOOLEAN]

MainInit ==
    /\ pc = "main_args"
    /\ args \in MainArgs
    /\ exit_code = None
    /\ stages = <<>>
    /\ i = 0
    /\ scenes = <<>>
    /\ SegIdle
    /\ CredIdle
    /\ FrameIdle
    /\ BasicIdle
    /\ TextIdle
    /\ rounding = {}

MainNext ==
    \/ MainPreset \/ MainDefaults \/ MainDepsMissing \/ MainDepsOk
    \/ MainFileMissing \/ MainStart \/ MainVideoInfo \/ MainAnalyze
    \/ MainSelect \/ MainNoTimestamps \/ MainSegment
    \/ SegBegin \/ SegExtend \/ SegCut \/ SegLast
    \/ MainNoScenes \/ MainDetectCredits \/ MainKeepCredits
    \/ CfEarlyReturn \/ CfEnter \/ CfOpening \/ CfClosing \/ CfDiscard
    \/ CfMerge \/ CfKeep \/ CfDrop \/ CfReturn
    \/ MainNoneLeft \/ MainFiltered
    \/ MainExtractVideos \/ MainExtractFrames \/ MainExtractNothing
    \/ MainReport \/ MainError

SpecMain == MainInit /\ [][MainNext]_vars

-----------------------------------------------------------------------------
(* parse_text_analysis, lines 243-293. A match of ocr_pattern is a record   *)
(* of its timestamp, the length of its stripped text and whether the text   *)
(* holds a letter.                                                          *)

\* longest list of OCR matches in a text analysis file
MaxMatches == 3
\* sample_interval is drawn from 1..MaxSampleInterval
MaxSampleInterval == 2

\* line 272
text_density_threshold == 50
\* line 261: the text must be longer than this to count
MinTextLength == 10

OcrMatch(ts, length, alpha) ==
    [timestamp |-> ts, length |-> length, alpha |-> alpha]

\* line 261: len(text) > 10 and any(c.isalpha() for c in text)
IsSignificant(m) == m.length > MinTextLength /\ m.alpha

\* line 262: text_timestamps[timestamp] = len(text)
DictSet(d, key, value) == {e \in d : e[1] # key} \cup {<<key, value>>}

\* line 275: text_timestamps[timestamp]
DictGet(d, key) == (CHOOSE e \in d : e[1] = key)[2]

DictKeys(d) == {e[1] : e \in d}

\* line 268: sorted(text_timestamps.keys())
RECURSIVE SortedKeys(_)
SortedKeys(keys) ==
    IF keys = {} THEN <<>>
    ELSE LET least == CHOOSE k \in keys : \A other \in keys : k <= other
         IN  <<least>> \o SortedKeys(keys \ {least})

\* line 277: text_length >= text_density_threshold
IsDense_Strict(text_length) == text_length > text_density_threshold

IsDense(text_length) == text_length >= text_density_threshold

\* lines 256-262: a match with significant text is recorded, a later match
\* at the same timestamp replacing an earlier one.
PtaRecord ==
    /\ pc = "pta_scan"
    /\ i < Len(matches)
    /\ IsSignificant(matches[i + 1])
    /\ text_timestamps' = DictSet(text_timestamps, matches[i + 1].timestamp,
                                  matches[i + 1].length)
    /\ i' = i + 1
    /\ UNCHANGED <<pc, timestamps, scenes, segLocals, credVars, frameVars,
                   basicVars, matches, sorted_times, sample_interval,
                   mainVars>>
    /\ UNCHANGED rounding

\* lines 256-261: a match with short or letterless text is not recorded.
PtaIgnore ==
    /\ pc = "pta_scan"
    /\ i < Len(matches)
    /\ ~IsSignificant(matches[i + 1])
    /\ i' = i + 1
    /\ UNCHANGED <<pc, timestamps, scenes, segLocals, credVars, frameVars,
                   restVars>>
    /\ UNCHANGED rounding

\* lines 264-265: nothing was recorded; the empty list is returned.
PtaNoText ==
    /\ pc = "pta_scan"
    /\ i = Len(matches)
    /\ text_timestamps = {}
    /\ returned' = text_regions
    /\ pc' = "pta_done"
    /\ UNCHANGED <<i, timestamps, scenes, segLocals, frameVars, text_regions,
                   video_duration, opening_credits, closing_credits,
                   all_credits, filtered_scenes, restVars>>
    /\ UNCHANGED rounding

\* lines 264-272: the recorded timestamps are sorted and the sweep starts.
PtaSort ==
    /\ pc = "pta_scan"
    /\ i = Len(matches)
    /\ text_timestamps # {}
    /\ sorted_times' = SortedKeys(DictKeys(text_timestamps))
    /\ current_start' = None
    /\ i' = 0
    /\ pc' = "pta_sweep"
    /\ UNCHANGED <<timestamps, scenes, min_duration, current_end,
                   arg_timestamps, round, first_arg, first_scenes, credVars,
                   frameVars, basicVars, matches, text_timestamps,
                   sample_interval, mainVars>>
    /\ UNCHANGED rounding

\* lines 274-279: a dense observation while no region is open opens one.
PtaOpen ==
    /\ pc = "pta_sweep"
    /\ i < Len(sorted_times)
    /\ IsDense(DictGet(text_timestamps, sorted_times[i + 1]))
    /\ current_start = None
    /\ current_start' = Some(sorted_times[i + 1])
    /\ i' = i + 1
    /\ UNCHANGED <<pc, timestamps, scenes, min_duration, current_end,
                   arg_timestamps, round, first_arg, first_scenes, credVars,
                   frameVars, restVars>>
    /\ UNCHANGED rounding

\* lines 274-278: a dense observation while a region is open.
PtaStay ==
    /\ pc = "pta_sweep"
    /\ i < Len(sorted_times)
    /\ IsDense(DictGet(text_timestamps, sorted_times[i + 1]))
    /\ current_start # None
    /\ i' = i + 1
    /\ UNCHANGED <<pc, timestamps, scenes, segLocals, credVars, frameVars,
                   restVars>>
    /\ UNCHANGED rounding

\* lines 274-284: a sparse observation closes the open region at its own
\* timestamp.
PtaClose ==
    /\ pc = "pta_sweep"
    /\ i < Len(sorted_times)
    /\ ~IsDense(DictGet(text_timestamps, sorted_times[i + 1]))
    /\ current_start # None
    /\ text_regions' =
           Append(text_regions, <<current_start[1], sorted_times[i + 1]>>)
    /\ current_start' = None
    /\ i' = i + 1
    /\ UNCHANGED <<pc, timestamps, scenes, min_duration, current_end,
                   arg_timestamps, round, first_arg, first_scenes,
                   video_duration, opening_credits, closing_credits,
                   all_credits, filtered_scenes, returned, frameVars,
                   restVars>>
    /\ UNCHANGED rounding

\* lines 274-281: a sparse observation while no region is open.
PtaSparse ==
    /\ pc = "pta_sweep"
    /\ i < Len(sorted_times)
    /\ ~IsDense(DictGet(text_timestamps, sorted_times[i + 1]))
    /\ current_start = None
    /\ i' = i + 1
    /\ UNCHANGED <<pc, timestamps, scenes, segLocals, credVars, frameVars,
                   restVars>>
    /\ UNCHANGED rounding

\* lines 286-293: the region still open is closed at the last timestamp plus
\* sample_interval, and the list is returned. The region's end is the float
\* sum: the float holding the value written here, or the float next to it
\* when the sum rounds, as `rounding` tells.
PtaReturnOpen ==
    /\ pc = "pta_sweep"
    /\ i = Len(sorted_times)
    /\ current_start # None
    /\ text_regions' =
           Append(text_regions,
                  <<current_start[1], Last(sorted_times) + sample_interval>>)
    /\ \E r \in Roundings(rounding, "sum", Last(sorted_times),
                          sample_interval) :
           rounding' = Noted(rounding, "sum", Last(sorted_times),
                             sample_interval, r, TRUE)
    /\ returned' = text_regions'
    /\ pc' = "pta_done"
    /\ UNCHANGED <<i, timestamps, scenes, segLocals, video_duration,
                   opening_credits, closing_credits, all_credits,
                   filtered_scenes, frameVars, restVars>>

\* lines 286-293: no region is open; the list is returned.
PtaReturn ==
    /\ pc = "pta_sweep"
    /\ i = Len(sorted_times)
    /\ current_start = None
    /\ returned' = text_regions
    /\ pc' = "pta_done"
    /\ UNCHANGED <<i, timestamps, scenes, segLocals, text_regions,
                   video_duration, opening_credits, closing_credits,
                   all_credits, filtered_scenes, frameVars, restVars>>
    /\ UNCHANGED rounding

\* The explored files: matches at 2, 4 or 6 s, with a text of 10 letters
\* (too short), of 49 (sparse), of 50 or 60 (dense), or of 60 characters
\* without a letter.
ObsTimes == {2, 4, 6}

ObsTexts == {<<10, TRUE>>, <<49, TRUE>>, <<50, TRUE>>, <<60, TRUE>>,
             <<60, FALSE>>}

OcrMatches == {OcrMatch(t, x[1], x[2]) : t \in ObsTimes, x \in ObsTexts}

PtaInit ==
    /\ pc = "pta_scan"
    /\ i = 0
    /\ matches \in SeqsUpTo(OcrMatches, MaxMatches)
    /\ sample_interval \in 1..MaxSampleInterval
    /\ text_timestamps = {}
    /\ sorted_times = <<>>
    /\ scenes = <<>>
    /\ SegIdle
    /\ CredIdle
    /\ FrameIdle
    /\ BasicIdle
    /\ MainIdle
    /\ rounding = {}

PtaNext ==
    \/ PtaRecord \/ PtaIgnore \/ PtaNoText \/ PtaSort \/ PtaOpen \/ PtaStay
    \/ PtaClose \/ PtaSparse \/ PtaReturnOpen \/ PtaReturn

SpecText == PtaInit /\ [][PtaNext]_vars

-----------------------------------------------------------------------------
(* The segmenter's claims, under SpecSeg. *)

IsSorted(s) == \A k \in 1..(Len(s) - 1) : s[k] <= s[k + 1]

\* The rounding kept for the operation op on (x, y); 0 when the operation
\* never decided a comparison.
RoundingOf(op, x, y) ==
    IF \E r \in Rounding : <<op, x, y, r>> \in rounding
    THEN CHOOSE r \in Rounding : <<op, x, y, r>> \in rounding
    ELSE 0

\* The sign of (x - y) - held, the difference being the program's float.
DiffSign(x, y, held) == FloatSign(x - y, RoundingOf("sub", x, y), held)

\* The k-th smallest element of a list, by counting (no sorting procedure).
RefSorted(ts) ==
    [k \in 1..Len(ts) |->
        CHOOSE v \in Range(ts) :
            /\ Cardinality({j \in 1..Len(ts) : ts[j] < v}) < k
            /\ k <= Cardinality({j \in 1..Len(ts) : ts[j] <= v})]

\* The reference segmentation: the sorted timestamps are cut at the
\* consecutive pairs whose gap is > 2 x min_duration, and the runs whose span
\* is >= min_duration are listed as (first, last), in order; gaps and spans
\* are the float differences.
RefSegments(ts, md) ==
    LET S == RefSorted(ts)
        n == Len(ts)
        Cuts == {k \in 1..(n - 1) : DiffSign(S[k + 1], S[k], 2 * md) > 0}
        Starts == {1} \cup {k + 1 : k \in Cuts}
        EndOf(a) == CHOOSE b \in Cuts \cup {n} :
                        /\ b >= a
                        /\ \A c \in Cuts \cup {n} : c >= a => b <= c
        Kept == {a \in Starts : DiffSign(S[EndOf(a)], S[a], md) >= 0}
        Nth(k) == CHOOSE a \in Kept : Cardinality({b \in Kept : b < a}) = k - 1
    IN  IF n = 0 THEN <<>>
        ELSE [k \in 1..Cardinality(Kept) |-> <<S[Nth(k)], S[EndOf(Nth(k))]>>]

\* The scenes of a list whose span is at most 2 x md, in order.
ShortScenes(scs, md) ==
    LET Short(sc) == DiffSign(sc[2], sc[1], 2 * md) <= 0
    IN  SelectSeq(scs, Short)

\* C1 as stated: for a non-empty sorted timestamp list and min_duration > 0,
\* segmenting the flattened endpoints of the result again, with the same
\* min_duration, returns the same list of intervals.
C1_Idempotent ==
    (pc = "seg_done" /\ round = 2 /\ first_arg # <<>> /\ IsSorted(first_arg)
        /\ min_duration > 0)
        => scenes = first_scenes

\* C1 as amended: segmenting the flattened endpoints of the result again
\* returns exactly the intervals of the first result whose span is at most
\* 2 x min_duration, in order (a longer interval is cut between its two
\* endpoints and both halves are dropped).
C1_ResegmentKeepsShortScenes ==
    (pc = "seg_done" /\ round = 2)
        => scenes = ShortScenes(first_scenes, min_duration)

\* C1's case: a sorted input whose scene is longer than 2 x min_duration has
\* been segmented again, and the scene is gone.
C1_Witness ==
    /\ pc = "seg_done" /\ round = 2
    /\ first_arg # <<>> /\ IsSorted(first_arg)
    /\ first_scenes # <<>>
    /\ scenes = <<>>

\* C2: the scenes returned are ordered by start time and no two overlap:
\* consecutive scenes (s1,e1),(s2,e2) have s1 < s2 and e1 < s2.
C2_OrderedDisjoint ==
    pc = "seg_done" =>
        \A k \in 1..(Len(scenes) - 1) :
            /\ scenes[k][1] < scenes[k + 1][1]
            /\ scenes[k][2] < scenes[k + 1][1]

\* C2's case: an unsorted input gave two scenes.
C2_Witness ==
    /\ pc = "seg_done" /\ round = 1
    /\ ~IsSorted(arg_timestamps)
    /\ Len(scenes) >= 2

\* C3: every scene in the result list, at every point of the sweep and at the
\* return, has end - start >= min_duration, so no scene is a single point.
C3_MinDuration ==
    \A k \in 1..Len(scenes) :
        /\ scenes[k][2] - scenes[k][1] >= min_duration
        /\ DiffSign(scenes[k][2], scenes[k][1], min_duration) >= 0
        /\ scenes[k][2] > scenes[k][1]

\* C3's case: a single-timestamp run was closed inside the sweep, another one
\* after it, and neither is in the result.
C3_Witness ==
    /\ pc = "seg_done" /\ round = 1
    /\ Len(timestamps) = 4 /\ Len(scenes) = 1
    /\ timestamps[1] < scenes[1][1]
    /\ scenes[1] = <<timestamps[2], timestamps[3]>>
    /\ scenes[1][2] < timestamps[4]

\* C4: the result equals the reference segmentation of the argument; Scenario
\* A gives no scene and Scenario B gives the single scene (0, 6 s).
C4_MatchesReference ==
    pc = "seg_done" =>
        /\ scenes = RefSegments(arg_timestamps, min_duration)
        /\ (arg_timestamps = ScenarioA.ts /\ min_duration = ScenarioA.md)
               => scenes = <<>>
        /\ (arg_timestamps = ScenarioB.ts /\ min_duration = ScenarioB.md)
               => scenes = << <<0, 12>> >>

\* C4's case: Scenario B, whose gap 2 -> 5 s is exactly 2 x min_duration, has
\* been segmented into one scene.
C4_Witness ==
    /\ pc = "seg_done" /\ round = 1
    /\ arg_timestamps = ScenarioB.ts /\ min_duration = ScenarioB.md
    /\ scenes = << <<0, 12>> >>


-----------------------------------------------------------------------------
(* The credit filter's claims, under SpecCredits. *)

\* a is b with some elements left out, the others in their order.
RECURSIVE IsSubsequence(_, _)
IsSubsequence(a, b) ==
    IF a = <<>> THEN TRUE
    ELSE IF b = <<>> THEN FALSE
    ELSE IF Head(a) = Head(b) THEN IsSubsequence(Tail(a), Tail(b))
    ELSE IsSubsequence(a, Tail(b))

\* The half-open overlap test of the specification.
SpecOverlap(sc, c) == ~(sc[2] <= c[1] \/ sc[1] >= c[2])

\* The start is before 10% of the duration, the mark being the float product
\* duration * 0.1.
BeforeTenth(start, duration) ==
    FloatSign(duration, RoundingOf("tenth", duration, 0), 10 * start) > 0

\* The start is after 85% of the duration, the mark being the float product
\* duration * 0.85.
AfterPct85(start, duration) ==
    FloatSign(85 * duration, RoundingOf("pct85", duration, 0), 100 * start) < 0

\* The start lies in the first 10% or in the last 15% of the video.
AtExtremity(r, duration) ==
    BeforeTenth(r[1], duration) \/ AfterPct85(r[1], duration)

\* C5: the scenes returned are exactly the scenes of the argument, unchanged
\* and in order, that overlap no merged credit region under
\* not (e <= c1 or s >= c2); a scene that only touches a region is kept.
C5_DropIffOverlap ==
    pc = "cf_done" =>
        LET Keep(sc) == \A k \in 1..Len(all_credits) :
                            ~SpecOverlap(sc, all_credits[k])
        IN  returned = SelectSeq(scenes, Keep)

\* C5's case: one scene was dropped, and a scene touching a credit region at
\* an endpoint was kept.
C5_Witness ==
    /\ pc = "cf_done"
    /\ Len(returned) < Len(scenes)
    /\ \E a \in 1..Len(returned), k \in 1..Len(all_credits) :
           \/ returned[a][2] = all_credits[k][1]
           \/ returned[a][1] = all_credits[k][2]

\* C6: the result is a subsequence of the scene list passed in, and is that
\* list when the text-region list is empty.
C6_Subsequence ==
    pc = "cf_done" =>
        /\ IsSubsequence(returned, scenes)
        /\ text_regions = <<>> => returned = scenes

\* C6's case: with text regions given, the first of two scenes was dropped and
\* the second kept.
C6_Witness ==
    /\ pc = "cf_done"
    /\ text_regions # <<>>
    /\ Len(scenes) = 2
    /\ returned = <<scenes[2]>>
    /\ scenes[1] # scenes[2]

\* C7: every opening-credit region starts before 10% of the duration and every
\* closing-credit region after 85% of it, each with the start of a text region;
\* and every scene dropped overlaps a text region that starts at an extremity,
\* so a region starting in [10%, 85%] alone never drops a scene.
C7_OnlyExtremities ==
    /\ \A k \in 1..Len(opening_credits) :
           /\ 10 * opening_credits[k][1] <= video_duration
           /\ BeforeTenth(opening_credits[k][1], video_duration)
           /\ \E r \in Range(text_regions) : r[1] = opening_credits[k][1]
    /\ \A k \in 1..Len(closing_credits) :
           /\ 100 * closing_credits[k][1] >= 85 * video_duration
           /\ AfterPct85(closing_credits[k][1], video_duration)
           /\ \E r \in Range(text_regions) : r[1] = closing_credits[k][1]
    /\ pc = "cf_done" =>
           \A sc \in Range(scenes) \ Range(returned) :
               \E r \in Range(text_regions) :
                   AtExtremity(r, video_duration) /\ SpecOverlap(sc, r)

\* C7's case: a region starting exactly at 10% of the duration and one
\* starting exactly at 85% were given (neither product rounded away from the
\* start), and scenes overlapping them were kept.
C7_Witness ==
    /\ pc = "cf_done"
    /\ ~(\E r \in Range(text_regions) : AtExtremity(r, video_duration))
    /\ \E r \in Range(text_regions) :
           /\ 10 * r[1] = video_duration
           /\ \E sc \in Range(returned) : SpecOverlap(sc, r)
    /\ \E r \in Range(text_regions) :
           /\ 100 * r[1] = 85 * video_duration
           /\ \E sc \in Range(returned) : SpecOverlap(sc, r)

\* C8 as stated: the credit regions built for one call are sorted by start and
\* pairwise non-overlapping: of any two, one ends at or before the other
\* starts.
C8_CreditsDisjoint ==
    pc \in {"cf_filter", "cf_done"} =>
        \A a, b \in 1..Len(all_credits) :
            a < b =>
                /\ all_credits[a][1] <= all_credits[b][1]
                /\ \/ all_credits[a][2] <= all_credits[b][1]
                   \/ all_credits[b][2] <= all_credits[a][1]

\* No two regions of the list overlap.
PairwiseDisjoint(rs) ==
    \A a, b \in 1..Len(rs) :
        a # b => (rs[a][2] <= rs[b][1] \/ rs[b][2] <= rs[a][1])

\* C8 as amended: the merged opening regions are sorted and pairwise disjoint
\* (each ends strictly before the next starts), so are the merged closing
\* regions, and the concatenation is sorted by start; an opening and a closing
\* region are disjoint when no two text regions passed in overlap.
C8_GroupsDisjoint ==
    pc \in {"cf_filter", "cf_done"} /\ text_regions # <<>> =>
        /\ \A a, b \in 1..Len(opening_credits) :
               a < b => opening_credits[a][2] < opening_credits[b][1]
        /\ \A a, b \in 1..Len(closing_credits) :
               a < b => closing_credits[a][2] < closing_credits[b][1]
        /\ all_credits = opening_credits \o closing_credits
        /\ \A a, b \in 1..Len(all_credits) :
               a < b => all_credits[a][1] < all_credits[b][1]
        /\ PairwiseDisjoint(text_regions) => PairwiseDisjoint(all_credits)

\* C8's case: two touching text regions were merged into one credit region.
C8_Witness ==
    /\ pc = "cf_filter"
    /\ Len(text_regions) = 2
    /\ text_regions[1][2] = text_regions[2][1]
    /\ all_credits = << <<text_regions[1][1], text_regions[2][2]>> >>


-----------------------------------------------------------------------------
(* The frame parsers' claims, under SpecAudio and SpecEdge. *)

Abs(x) == IF x >= 0 THEN x ELSE -x

\* The lines (0-based) of the given kind at most w lines away from line p.
Nearby(p, w, kind) ==
    {j \in 0..(Len(lines) - 1) : Abs(j - p) <= w /\ lines[j + 1].kind = kind}

\* C9 as stated: a frame whose line has no audio line within 5 lines before or
\* after it gets no frame record and its timestamp is never returned.
C9_UnpairedFrameDropped ==
    \A p \in 0..(Len(lines) - 1) :
        (lines[p + 1].kind = "frame" /\ Nearby(p, AudioWindow, "audio") = {})
            => /\ \A k \in 1..Len(frame_data) :
                      frame_data[k].timestamp # lines[p + 1].ts
               /\ \A k \in 1..Len(timestamps) :
                      timestamps[k] # lines[p + 1].ts

\* C10 as stated: when a frame's window holds edge lines, the edge value of
\* the frame's record is the value of one at the smallest line distance.
C10_NearestValue ==
    \A k \in 1..Len(frame_data) :
        LET p == frame_data[k].timestamp
            M == Nearby(p, EdgeWindow, "edge")
        IN  M # {} =>
                \E j \in M :
                    /\ frame_data[k].edges = lines[j + 1].edge
                    /\ \A j2 \in M : Abs(j - p) <= Abs(j2 - p)

\* The timestamps of the records of a list that satisfy Sel, in order.
SelectedTimestamps(frames, Sel(_)) ==
    [k \in 1..Len(SelectSeq(frames, Sel)) |->
        SelectSeq(frames, Sel)[k].timestamp]

\* The audio condition of the specification for one mode.
SpecAudioMatch(rms, mode) ==
    CASE mode = "quiet" -> rms < quiet_threshold
      [] mode = "loud" -> rms > loud_threshold
      [] mode = "both" -> rms < quiet_threshold \/ rms > loud_threshold
      [] OTHER -> FALSE

\* C11: the timestamps returned are those of the paired frames, in order, with
\* luminance < luma_threshold and audio matching audio_mode; a dark frame at
\* -50 dB with the default thresholds is returned in mode 'quiet' and not in
\* mode 'loud'; and the frames selected under 'both' are those selected under
\* 'quiet' or under 'loud'.
C11_SelectsDarkAndMatching ==
    pc = "audio_done" =>
        LET Sel(f) == f.luma < luma_threshold
                          /\ SpecAudioMatch(f.audio_rms, audio_mode)
            Under(mode) == Range(SelectAudioFrames(frame_data, luma_threshold,
                               mode, quiet_threshold, loud_threshold))
        IN  /\ returned = SelectedTimestamps(frame_data, Sel)
            /\ \A k \in 1..Len(frame_data) :
                   (/\ frame_data[k].luma < luma_threshold
                    /\ frame_data[k].audio_rms = -50
                    /\ quiet_threshold = -40 /\ loud_threshold = -10)
                   => /\ audio_mode = "quiet"
                          => frame_data[k].timestamp \in Range(returned)
                      /\ audio_mode = "loud"
                          => frame_data[k].timestamp \notin Range(returned)
            /\ Under("both") = Under("quiet") \cup Under("loud")

\* C11's case: in mode 'quiet' with the default thresholds, a paired dark frame
\* at -50 dB was returned and a paired bright frame was not.
C11_Witness ==
    /\ pc = "audio_done"
    /\ audio_mode = "quiet"
    /\ quiet_threshold = -40 /\ loud_threshold = -10
    /\ \E k \in 1..Len(frame_data) :
           /\ frame_data[k].luma < luma_threshold
           /\ frame_data[k].audio_rms = -50
           /\ frame_data[k].timestamp \in Range(returned)
    /\ \E k \in 1..Len(frame_data) :
           /\ frame_data[k].luma >= luma_threshold
           /\ frame_data[k].timestamp \notin Range(returned)

\* The frames of the file with their records' positive edge values: the sum
\* of f over a finite set of indices.
RECURSIVE SumOver(_, _)
SumOver(S, f) ==
    IF S = {} THEN 0
    ELSE LET k == CHOOSE x \in S : TRUE
         IN  f[k] + SumOver(S \ {k}, f)

\* C12: with Pos the records whose edge value is > 0, a record's timestamp is
\* returned iff its luminance is < luma_threshold and (Pos is empty or its
\* edge value is >= 1.2 x the mean of the edge values of Pos), the mean being
\* over all records of the file; the timestamps come in record order; and
\* when Pos is empty they are those the basic strategy returns for the file.
C12_EdgeGate ==
    pc = "est_done" =>
        LET n == Len(frame_data)
            Pos == {k \in 1..n : frame_data[k].edges > 0}
            total == SumOver(Pos, [k \in 1..n |-> frame_data[k].edges])
            Gate(f) ==
                \/ Pos = {}
                \/ FloatSign(12 * total,
                             RoundingOf("mean", total, Cardinality(Pos)),
                             10 * f.edges * Cardinality(Pos)) <= 0
            Sel(f) == f.luma < luma_threshold /\ Gate(f)
        IN  /\ returned = SelectedTimestamps(frame_data, Sel)
            /\ Pos = {} => returned = BasicTimestamps(lines, luma_threshold)

\* C12's case: a dark frame whose edge value is below the threshold was left
\* out while a dark frame above it was returned.
C12_Witness ==
    /\ pc = "est_done"
    /\ \E a, b \in 1..Len(frame_data) :
           /\ frame_data[a].luma < luma_threshold
           /\ frame_data[b].luma < luma_threshold
           /\ frame_data[a].edges > 0
           /\ frame_data[a].edges < frame_data[b].edges
           /\ frame_data[a].timestamp \notin Range(returned)
           /\ frame_data[b].timestamp \in Range(returned)

\* C12's second case: no record has a positive edge value, one has an edge
\* value of 0 read from an edge line, and a dark frame was returned.
C12_WitnessNoEdges ==
    /\ pc = "est_done"
    /\ returned # <<>>
    /\ \A k \in 1..Len(frame_data) : frame_data[k].edges = 0
    /\ \E p \in 1..Len(lines) : lines[p].kind = "edge"

\* C13: a second call of the basic strategy on the same file with a threshold
\* that is not lower returns every timestamp the first call returned (in
\* order, so at least as many); and no frame whose luminance equals the
\* threshold is returned.
C13_Monotone ==
    pc = "basic_done" =>
        /\ round = 2 =>
               /\ first_threshold <= luma_threshold
               /\ IsSubsequence(first_returned, returned)
               /\ Len(first_returned) <= Len(returned)
        /\ \A p \in 1..Len(lines) :
               (lines[p].kind = "frame" /\ lines[p].luma = luma_threshold)
                   => lines[p].ts \notin Range(returned)

\* C13's case: the second call, with a higher threshold, returned more
\* timestamps than the first, and left out a frame whose luminance equals
\* the threshold.
C13_Witness ==
    /\ pc = "basic_done" /\ round = 2
    /\ first_threshold < luma_threshold
    /\ Len(first_returned) < Len(returned)
    /\ first_returned # <<>>
    /\ \E p \in 1..Len(lines) :
           /\ lines[p].kind = "frame" /\ lines[p].luma = luma_threshold
           /\ lines[p].ts \notin Range(returned)

-----------------------------------------------------------------------------
(* main's claims, under SpecMain. *)

Ran(stage) == \E k \in 1..Len(stages) : stages[k] = stage

\* C14: once the selection has returned no timestamps, or the segmentation
\* no scenes, or the credit filter has left no scenes, no further stage runs
\* and main's exit code, when it returns, is 0; the extraction and the report
\* run only with a non-empty scene list; the credit detection runs only
\* after a segmentation that gave a scene and only when skip_credits is set.
C14_EmptyIsNormalExit ==
    /\ (Ran("selection") /\ timestamps = <<>>)
           => /\ Last(stages) = "selection"
              /\ exit_code \in {None, Some(0)}
              /\ pc \in {"main_selected", "main_exit"}
    /\ (Ran("segmentation") /\ pc \in {"seg_done", "main_exit"}
            /\ ~Ran("credit_detection") /\ scenes = <<>>)
           => /\ Last(stages) = "segmentation"
              /\ exit_code \in {None, Some(0)}
    /\ (Ran("credit_filter") /\ scenes = <<>>)
           => /\ Last(stages) = "credit_filter"
              /\ exit_code = Some(0)
              /\ pc = "main_exit"
    /\ (Ran("extract_videos") \/ Ran("extract_frames") \/ Ran("report")
            \/ pc \in {"main_extract", "main_report"})
           => scenes # <<>>
    /\ Ran("credit_detection")
           => /\ args.skip_credits
              /\ Ran("segmentation")
              /\ ~Ran("credit_filter") => scenes # <<>>

\* C14's case: the credit filter dropped every scene and main returned 0
\* without extracting or reporting.
C14_Witness ==
    /\ pc = "main_exit"
    /\ exit_code = Some(0)
    /\ Last(stages) = "credit_filter"
    /\ scenes = <<>>
    /\ filtered_scenes = <<>>
    /\ all_credits # <<>>

\* C15 as stated: once main has applied a preset, luma, duration, interval,
\* credits_sample_interval and skip_credits hold the preset's values,
\* whatever options were given with it.
C15_PresetOverrides ==
    (pc # "main_args" /\ args.preset # None) =>
        LET preset_config == PRESETS[args.preset[1]]
        IN  /\ args.luma = Some(preset_config.luma)
            /\ args.duration = Some(preset_config.duration)
            /\ args.interval = Some(preset_config.interval)
            /\ args.credits_sample_interval =
                   Some(preset_config.credits_sample_interval)
            /\ args.skip_credits = preset_config.skip_credits

-----------------------------------------------------------------------------
(* parse_text_analysis' claim, under SpecText. *)

\* C16: with the recorded observations taken in timestamp order, the regions
\* returned are, in order of start, one per maximal run of observations of
\* length >= 50: from the run's first timestamp to the timestamp of the first
\* later observation of length < 50, or, with none, to the last timestamp
\* plus sample_interval. The observations (2,60),(4,60) with interval 2 give
\* the region (2,6). Each region has start < end and of two regions one ends
\* before the other starts.
C16_OneRegionPerRun ==
    pc = "pta_done" =>
        LET Keys == DictKeys(text_timestamps)
            Dense(t) == DictGet(text_timestamps, t) >= 50
            Prev(t) == {u \in Keys : u < t /\ \A v \in Keys : ~(u < v /\ v < t)}
            Starts == {t \in Keys : Dense(t) /\ \A u \in Prev(t) : ~Dense(u)}
            Closers(t) == {u \in Keys : u > t /\ ~Dense(u)}
            EndOf(t) ==
                IF Closers(t) # {}
                THEN CHOOSE u \in Closers(t) : \A v \in Closers(t) : u <= v
                ELSE (CHOOSE u \in Keys : \A v \in Keys : v <= u)
                         + sample_interval
        IN  /\ Range(returned) = {<<t, EndOf(t)>> : t \in Starts}
            /\ Len(returned) = Cardinality(Starts)
            /\ \A k \in 1..Len(returned) : returned[k][1] < returned[k][2]
            /\ \A a, b \in 1..Len(returned) :
                   a < b => returned[a][2] < returned[b][1]
            /\ (text_timestamps = {<<2, 60>>, <<4, 60>>} /\ sample_interval = 2)
                   => returned = << <<2, 6>> >>

\* C16's case: two runs were found, the first closed by a sparse observation
\* and the second by the end of the data.
C16_Witness ==
    /\ pc = "pta_done"
    /\ Len(returned) = 2
    /\ returned[1][2] \in DictKeys(text_timestamps)
    /\ returned[2][2] \notin DictKeys(text_timestamps)

\* C16's example: the observations (2,60),(4,60) with interval 2 gave (2,6).
C16_WitnessExample ==
    /\ pc = "pta_done"
    /\ text_timestamps = {<<2, 60>>, <<4, 60>>}
    /\ sample_interval = 2
    /\ returned = << <<2, 6>> >>

-----------------------------------------------------------------------------
(* The stages' effect on their arguments, under SpecSeg. *)

\* C17 as stated: create_scene_segments leaves the list passed to it
\* unchanged in content and order: at every point of the call and after it
\* the caller's timestamp list is the list that was passed.
C17_ArgumentUnchanged ==
    timestamps = arg_timestamps

=============================================================================
